---------------------------- MODULE Spec2Model ----------------------------
(***************************************************************************)
(* The incremental crawl engine of learning-note-analyzer:                 *)
(*   src/src/spider/spider.py  (the packaged ArticleSpider, impl "package")*)
(*   src/main.py               (the stand-alone ArticleSpider, "script")   *)
(* One spider instance, the files of its data directory and the paginated  *)
(* endpoint it polls.                                                      *)
(*                                                                         *)
(* Encodings.                                                              *)
(*  - A Python dict is a TLA+ record; `k in d` is k \in DOMAIN d, the      *)
(*    empty dict is <<>>.  JSON null / Python None is the record JsonNull. *)
(*  - A timestamp string is [str |-> s] for a string that is not a decimal *)
(*    integer ("" or text) and [int |-> v] for a decimal integer string.   *)
(*  - Integers beyond 32 bits (epoch milliseconds, 1e12) are pairs         *)
(*    [hi, lo] standing for hi * 10^6 + lo with 0 <= lo < 10^6.            *)
(*  - A datetime is its number of milliseconds since the epoch, as a pair. *)
(***************************************************************************)
EXTENDS Integers, Sequences, FiniteSets, TLC

VARIABLES
  impl,                  \* which of the two ArticleSpider modules runs
  existing_article_ids,  \* self.existing_article_ids
  last_crawl_time,       \* self.last_crawl_time (JsonNull for None)
  all_articles,          \* self.all_articles
  files,                 \* the data directory: file name -> content
  stack,                 \* the call stack of the instance's running methods
  fetched,               \* the log of page requests: target, page index, body
  obs,                   \* what the last completed step did (inputs, outputs)
  arg,                   \* the pending call's arguments
  server,                \* the endpoint: what it may answer
  unwritable             \* the files of the data directory that cannot be opened for writing

vars == <<impl, existing_article_ids, last_crawl_time, all_articles, files,
          stack, fetched, obs, arg, server, unwritable>>

-----------------------------------------------------------------------------
(* Python values *)

JsonNull == [json_null |-> TRUE]

IsNone(x) == x = JsonNull

\* dict.get(key, default)
Get(d, key, default) == IF key \in DOMAIN d THEN d[key] ELSE default

Range(s) == {s[i] : i \in DOMAIN s}

\* no exception
NoError == "none"

-----------------------------------------------------------------------------
(* Wide integers and instants *)

Mega == 1000 * 1000

Big(hi, lo) == [hi |-> hi, lo |-> lo]

BigGt(a, b) == a.hi > b.hi \/ (a.hi = b.hi /\ a.lo > b.lo)

\* v * 1000, for v below 2^31 * 1000
BigTimes1000(v) == Big(v.hi * 1000 + (v.lo \div 1000), (v.lo % 1000) * 1000)

\* the integer s (below 2^31) and s * 1000 + ms, as pairs
BigOf(s) == Big(s \div Mega, s % Mega)
BigOfMillis(s, ms) == Big(s \div 1000, (s % 1000) * 1000 + ms)

\* 1e12: larger integers are taken as milliseconds
MsThreshold == Big(Mega, 0)

\* datetime.max as an epoch second, 9999-12-31T23:59:59Z = 253402300799:
\* datetime.fromtimestamp raises ValueError beyond it
MaxEpochSecond == Big(253402, 300799)
MaxEpochMillis == Big(253402300, 799999)

PlusOneSecond(t) ==
  IF t.lo + 1000 >= Mega THEN Big(t.hi + 1, t.lo + 1000 - Mega)
  ELSE Big(t.hi, t.lo + 1000)

-----------------------------------------------------------------------------
(* ArticleSpider._parse_timestamp, _is_article_newer *)

EmptyStr == [str |-> ""]

\* `not timestamp_str`
IsFalsyStr(s) == "str" \in DOMAIN s /\ s.str = ""

\* int(timestamp_str) raises ValueError
IntRaises(s) == "int" \notin DOMAIN s /\ "huge" \notin DOMAIN s

\* the text is an integer beyond what datetime.fromtimestamp takes as a
\* time_t (about 20 digits and more): it raises OverflowError or OSError,
\* which `except (ValueError, TypeError)` does not catch
TimestampOverflows(s) == "huge" \in DOMAIN s

\* what _parse_timestamp leaves behind when the exception escapes
Overflow == [raised |-> "OverflowError"]

\* the threshold itself taken as milliseconds
IsMillisecondsInclusive(timestamp) == ~BigGt(MsThreshold, timestamp)

\* `if timestamp > 1e12`
IsMilliseconds(timestamp) == BigGt(timestamp, MsThreshold)

_parse_timestamp(timestamp_str) ==
  IF IsFalsyStr(timestamp_str) THEN JsonNull
  ELSE IF IntRaises(timestamp_str) THEN JsonNull
  ELSE IF TimestampOverflows(timestamp_str) THEN Overflow
  ELSE LET timestamp == timestamp_str.int IN
       IF IsMilliseconds(timestamp)
       THEN IF BigGt(timestamp, MaxEpochMillis) THEN JsonNull
            ELSE timestamp
       ELSE IF BigGt(timestamp, MaxEpochSecond) THEN JsonNull
            ELSE BigTimes1000(timestamp)

\* the publish time taken first
ArticleTimePublishFirst(article) ==
  LET publish_time == _parse_timestamp(Get(article, "publish_time", EmptyStr))
      update_time  == _parse_timestamp(Get(article, "update_time", EmptyStr))
  IN  IF ~IsNone(publish_time) THEN publish_time ELSE update_time

\* article_time = update_time if update_time else publish_time
ArticleTime(article) ==
  LET publish_time == _parse_timestamp(Get(article, "publish_time", EmptyStr))
      update_time  == _parse_timestamp(Get(article, "update_time", EmptyStr))
  IN  IF ~IsNone(update_time) THEN update_time ELSE publish_time

\* the comparison made inclusive
IsLaterOrEqual(article_time, since_time) == ~BigGt(since_time, article_time)

\* article_time > since_time
IsLater(article_time, since_time) == BigGt(article_time, since_time)

\* _is_article_newer raises: since_time is set and one of the two
\* _parse_timestamp calls does
NewerRaises(article, since_time) ==
  /\ ~IsNone(since_time)
  /\ \/ _parse_timestamp(Get(article, "publish_time", EmptyStr)) = Overflow
     \/ _parse_timestamp(Get(article, "update_time", EmptyStr)) = Overflow

\* the value _is_article_newer returns, when it returns
_is_article_newer(article, since_time) ==
  IF IsNone(since_time) THEN TRUE
  ELSE LET article_time == ArticleTime(article) IN
       IF IsNone(article_time) THEN TRUE
       ELSE IsLater(article_time, since_time)

-----------------------------------------------------------------------------
(* ArticleSpider.filter_new_articles *)

\* the membership test left out
IsDuplicateNever(article_id, seen) == FALSE

\* `article_id and article_id in self.existing_article_ids`
IsDuplicate(article_id, seen) == article_id # "" /\ article_id \in seen

\* the identifier recorded even when it is empty
AddSeenAlways(article_id, seen) == seen \cup {article_id}

\* `if article_id: self.existing_article_ids.add(article_id)`
AddSeen(article_id, seen) == IF article_id # "" THEN seen \cup {article_id} ELSE seen

RECURSIVE FilterFrom(_, _, _, _)
FilterFrom(articles, since_time, new_articles, seen) ==
  IF articles = <<>>
  THEN [new_articles |-> new_articles, existing_article_ids |-> seen,
        raised |-> NoError]
  ELSE LET article    == Head(articles)
           article_id == Get(article, "id", "")
       IN  IF IsDuplicate(article_id, seen)
           THEN FilterFrom(Tail(articles), since_time, new_articles, seen)
           ELSE IF NewerRaises(article, since_time)
           THEN \* the exception leaves the loop: the identifiers added so far stay
                [new_articles |-> new_articles, existing_article_ids |-> seen,
                 raised |-> "OverflowError"]
           ELSE IF ~_is_article_newer(article, since_time)
           THEN FilterFrom(Tail(articles), since_time, new_articles, seen)
           ELSE FilterFrom(Tail(articles), since_time,
                           Append(new_articles, article),
                           AddSeen(article_id, seen))

\* the returned list, the instance's seen set after the call and the
\* exception that escapes
filter_new_articles(articles, since_time, seen) ==
  FilterFrom(articles, since_time, <<>>, seen)

-----------------------------------------------------------------------------
(* Sample values: timestamps around one instant, articles, the data files *)

BaseSec == 17 * 100000000

SampleTime == BigTimes1000(BigOf(BaseSec))

TsText == [str |-> "abc"]
TsSec(s) == [int |-> BigOf(s)]
TsMs(s, ms) == [int |-> BigOfMillis(s, ms)]

Article(id, update_time, publish_time) ==
  [id |-> id, update_time |-> update_time, publish_time |-> publish_time]

\* an integer text of 20 digits
TsHuge == [huge |-> "99999999999999999999"]

\* 253402300800, the first second of year 10000: ValueError, caught
TsOutOfRange == [int |-> Big(253402, 300800)]

\* (update_time, publish_time) of the sampled articles
TimePairs ==
  { <<EmptyStr, EmptyStr>>,
    <<TsSec(BaseSec - 1), EmptyStr>>,
    <<TsSec(BaseSec), EmptyStr>>,
    <<TsSec(BaseSec + 1), EmptyStr>>,
    <<TsMs(BaseSec, 0), TsSec(BaseSec + 1)>>,
    <<TsText, TsSec(BaseSec)>>,
    <<EmptyStr, TsMs(BaseSec + 1, 0)>> }

SinceTimes == {JsonNull, SampleTime}

SeqsUpTo(S, n) == UNION {[1..k -> S] : k \in 0..n}

Absent == [kind |-> "absent"]
JsonFile(value) == [kind |-> "json", value |-> value]
\* a file whose text is not JSON
Garbage == [kind |-> "garbage"]
\* a file whose bytes are not UTF-8
NotUtf8 == [kind |-> "not_utf8"]
\* a file the process may not read
Unreadable == [kind |-> "unreadable"]
\* a file holding the JSON text `null`
JsonNullFile == [kind |-> "json_null"]
\* a file holding a JSON list of numbers, `[1, 2]`
JsonScalarsFile == [kind |-> "json_scalars"]
CsvFile(rows) == [kind |-> "csv", value |-> rows]

Configs == {"original", "new_target"}

AllJson == "articles_all.json"
AllCsv == "articles_all.csv"
HistoryJson == "crawl_history.json"
IncrementalJson(config_name) == "articles_" \o config_name \o "_incremental.json"
IncrementalCsv(config_name) == "articles_" \o config_name \o "_incremental.csv"

BatchJson(config_name) == "articles_" \o config_name \o ".json"
BatchCsv(config_name) == "articles_" \o config_name \o ".csv"

FileNames ==
  {AllJson, AllCsv, HistoryJson}
    \cup {IncrementalJson(c) : c \in Configs} \cup {IncrementalCsv(c) : c \in Configs}
    \cup {BatchJson(c) : c \in Configs} \cup {BatchCsv(c) : c \in Configs}

\* the data directory right after ensure_dir created it
NoFiles == [f \in FileNames |-> Absent]

NoObs == [op |-> "none"]
NoServer == [kind |-> "none"]
NoArg == [op |-> "none"]

-----------------------------------------------------------------------------
(* Reading and writing the data directory *)

Impls == {"package", "script"}

\* The read inside load_existing_data / load_crawl_history.
\*  package: the call load_json(filepath); spider.py imports get_logger,
\*           ensure_dir, save_json and save_csv from ..utils but not load_json,
\*           so evaluating the name raises NameError.
\*  script:  open(filepath) and json.load(f): PermissionError (an IOError)
\*           from open, UnicodeDecodeError (a ValueError) from the decoding
\*           read, JSONDecodeError from the parser.
\* `shape` tells a decoded value that is neither a list of dicts nor a dict.
ReadJson(content) ==
  LET Raise(exc) == [raised |-> exc, value |-> JsonNull, shape |-> "none"] IN
  IF impl = "package" THEN Raise("NameError")
  ELSE IF content.kind = "json"
       THEN [raised |-> NoError, value |-> content.value, shape |-> "json"]
  ELSE IF content.kind \in {"json_null", "json_scalars"}
       THEN [raised |-> NoError, value |-> JsonNull, shape |-> content.kind]
  ELSE IF content.kind = "unreadable" THEN Raise("IOError")
  ELSE IF content.kind = "not_utf8" THEN Raise("UnicodeDecodeError")
  ELSE Raise("JSONDecodeError")

\* the except clause of load_existing_data:
\*  package `except Exception`, script `except (json.JSONDecodeError, IOError)`
LoadDataCatches(exc) ==
  IF impl = "package" THEN TRUE ELSE exc \in {"JSONDecodeError", "IOError"}

\* {article.get('id', '') for article in articles if article.get('id')}
IdsOf(articles) ==
  {Get(articles[i], "id", "") : i \in {j \in DOMAIN articles : Get(articles[j], "id", "") # ""}}

\* the set comprehension over the decoded value: iterating None raises
\* TypeError, article.get on an item that is no dict raises AttributeError
ComprehensionRaises(shape) ==
  IF shape = "json_null" THEN "TypeError"
  ELSE IF shape = "json_scalars" THEN "AttributeError"
  ELSE NoError

\* load_existing_data(filename) on the directory fs with the seen set `seen`:
\* the returned list, the seen set afterwards, the exception that escapes
load_existing_data(filename, fs, seen) ==
  IF fs[filename].kind = "absent"
  THEN [articles |-> <<>>, existing_article_ids |-> seen, raised |-> NoError]
  ELSE LET r   == ReadJson(fs[filename])
           exc == IF r.raised # NoError THEN r.raised
                  ELSE ComprehensionRaises(r.shape)
       IN
       IF exc # NoError
       THEN [articles |-> <<>>, existing_article_ids |-> seen,
             raised |-> IF LoadDataCatches(exc) THEN NoError ELSE exc]
       ELSE [articles |-> r.value, existing_article_ids |-> IdsOf(r.value),
             raised |-> NoError]

\* open(filepath, 'w') of a file that cannot be written raises OSError
\* (PermissionError and the like; IOError is the same class); the file is
\* left as it was
WriteFails(filename) == filename \in unwritable

\* the directory, and the exception that has left the running method
Ok(fs) == [files |-> fs, raised |-> NoError]

\* save_to_json with the failure of the write logged and not raised
save_to_json_swallowed(st, filename, articles) ==
  IF st.raised # NoError \/ WriteFails(filename) THEN st
  ELSE [st EXCEPT !.files[filename] = JsonFile(articles)]

\* save_to_json(filename, articles) in the course st of a method: nothing
\* runs after an exception; save_json logs and re-raises, the script's
\* open / json.dump raise
save_to_json(st, filename, articles) ==
  IF st.raised # NoError THEN st
  ELSE IF WriteFails(filename) THEN [st EXCEPT !.raised = "OSError"]
  ELSE [st EXCEPT !.files[filename] = JsonFile(articles)]

\* save_to_csv(filename, articles): nothing is written for an empty list
save_to_csv(st, filename, articles) ==
  IF st.raised # NoError \/ articles = <<>> THEN st
  ELSE IF WriteFails(filename) THEN [st EXCEPT !.raised = "OSError"]
  ELSE [st EXCEPT !.files[filename] = CsvFile(articles)]

-----------------------------------------------------------------------------
(* ArticleSpider.merge_and_save_incremental *)

\* new_results is a dict in insertion order: a sequence of (name, articles)
RECURSIVE AllNewArticles(_)
AllNewArticles(new_results) ==
  IF new_results = <<>> THEN <<>>
  ELSE Head(new_results).articles \o AllNewArticles(Tail(new_results))

\* the incoming list taken over whole, without the identifier test
UniqueNewAll(existing_articles, all_new_articles) == all_new_articles

\* unique_new_articles: the incoming records whose id is not in existing_ids
UniqueNew(existing_articles, all_new_articles) ==
  LET existing_ids == IdsOf(existing_articles)
      Fresh(article) == Get(article, "id", "") \notin existing_ids
  IN  SelectSeq(all_new_articles, Fresh)

\* combined_articles = existing_articles + unique_new_articles
Combine(existing_articles, all_new_articles) ==
  existing_articles \o UniqueNew(existing_articles, all_new_articles)

\* the per-configuration incremental files, written for non-empty lists
RECURSIVE SaveIncrementals(_, _)
SaveIncrementals(st, new_results) ==
  IF new_results = <<>> THEN st
  ELSE LET e == Head(new_results) IN
       IF e.articles = <<>> THEN SaveIncrementals(st, Tail(new_results))
       ELSE SaveIncrementals(
              save_to_csv(save_to_json(st, IncrementalJson(e.name), e.articles),
                          IncrementalCsv(e.name), e.articles),
              Tail(new_results))

\* the per-configuration files of save_batch_results, for non-empty lists
RECURSIVE SaveBatchFiles(_, _)
SaveBatchFiles(st, batch_results) ==
  IF batch_results = <<>> THEN st
  ELSE LET e == Head(batch_results) IN
       IF e.articles = <<>> THEN SaveBatchFiles(st, Tail(batch_results))
       ELSE SaveBatchFiles(
              save_to_csv(save_to_json(st, BatchJson(e.name), e.articles),
                          BatchCsv(e.name), e.articles),
              Tail(batch_results))

\* save_batch_results(batch_results): the files of each configuration, then
\* the merged list when it is not empty
save_batch_results(fs, batch_results) ==
  LET all_articles_ == AllNewArticles(batch_results)
      each == SaveBatchFiles(Ok(fs), batch_results)
  IN  IF all_articles_ = <<>> THEN each
      ELSE save_to_csv(save_to_json(each, AllJson, all_articles_), AllCsv, all_articles_)

merge_and_save_incremental(new_results) ==
  LET loaded   == load_existing_data(AllJson, files, existing_article_ids)
      combined == Combine(loaded.articles, AllNewArticles(new_results))
      saved    == SaveIncrementals(
                    save_to_csv(save_to_json(Ok(files), AllJson, combined),
                                AllCsv, combined),
                    new_results)
  IN  /\ existing_article_ids' = loaded.existing_article_ids
      /\ IF loaded.raised # NoError
         THEN /\ files' = files
              /\ obs' = [op |-> "merge_and_save_incremental", raised |-> loaded.raised,
                         new_results |-> new_results, files_before |-> files]
         ELSE /\ files' = saved.files
              /\ obs' = [op |-> "merge_and_save_incremental", raised |-> saved.raised,
                         new_results |-> new_results, files_before |-> files]

-----------------------------------------------------------------------------
(* ArticleSpider.get_page_data, parse_articles *)

\* One answer of the endpoint to requests.get: a transport/HTTP failure, or a
\* decoded JSON body.
RequestFailed == [status |-> "RequestException"]
Answer(json) == [status |-> "ok", json |-> json]

\* get_page_data: the decoded body, {} after a RequestException
get_page_data(resp) == IF resp.status = "ok" THEN resp.json ELSE <<>>

ParseItem(item) ==
  Article(Get(item, "postId", ""),
          Get(item, "lastEditTime", EmptyStr),
          Get(item, "dateline", EmptyStr))

\* the test `"data" in data and "resultList" in data["data"]` of
\* parse_articles: `in` applied to None raises TypeError, for a payload that
\* is None and for a payload whose "data" is None
ParseRaises(data) ==
  IF DOMAIN data = {} THEN NoError
  ELSE IF IsNone(data) THEN "TypeError"
  ELSE IF "data" \in DOMAIN data /\ IsNone(data.data) THEN "TypeError"
  ELSE NoError

\* the list parse_articles returns when its test raises nothing
parse_articles(data) ==
  IF "data" \in DOMAIN data /\ "resultList" \in DOMAIN data.data
  THEN [i \in DOMAIN data.data.resultList |-> ParseItem(data.data.resultList[i])]
  ELSE <<>>

-----------------------------------------------------------------------------
(* ArticleSpider.get_all_articles: the crawl loop, one iteration per step *)

page_size == 12

Top == stack[Len(stack)]
Pop == SubSeq(stack, 1, Len(stack) - 1)

InLoop == stack # <<>> /\ Top.fn = "get_all_articles"

\* filter_time = since_time if since_time else
\*               (self.last_crawl_time if incremental else None)
FilterTime(since_time, incremental, last) ==
  IF ~IsNone(since_time) THEN since_time
  ELSE IF incremental THEN last ELSE JsonNull

\* `while page_index <= max_pages` let one page too far
LoopConditionOffByOne(page_index, max_pages) == page_index <= max_pages + 1

\* `while page_index <= max_pages`
LoopCondition(page_index, max_pages) == page_index <= max_pages

\* `if not data or "data" not in data or "resultList" not in data["data"]`:
\* "invalid" when the test is true, "valid" when false, "TypeError" when
\* data["data"] is None (`in` applied to None)
PageCheck(data) ==
  IF DOMAIN data = {} \/ "data" \notin DOMAIN data THEN "invalid"
  ELSE IF IsNone(data.data) THEN "TypeError"
  ELSE IF "resultList" \notin DOMAIN data.data THEN "invalid"
  ELSE "valid"

\* total_count // page_size: a partial last page not counted
TotalPagesFloor(total_count) == total_count \div page_size

\* math.ceil(total_count / page_size), total_count >= 0
TotalPages(total_count) == (total_count + page_size - 1) \div page_size

\* the total-pages test left out
PastTotalNever(data, page_index) == FALSE

\* `if "totalCount" in data["data"]: ... if page_index > total_pages: break`
PastTotal(data, page_index) ==
  /\ "totalCount" \in DOMAIN data.data
  /\ page_index > TotalPages(data.data.totalCount)

\* the filter applied in every mode
UsesFilterAlways(incremental, filter_time) == TRUE

\* `if incremental or filter_time`
UsesFilter(incremental, filter_time) == incremental \/ ~IsNone(filter_time)

\* the early-exit branch ending the loop
EarlyExitBreaks(incremental, filtered_articles, page_index) ==
  incremental /\ Len(filtered_articles) = 0 /\ page_index > 3

\* `if incremental and len(filtered_articles) == 0 and page_index > 3:`
\* the branch writes a log line and nothing else: it never ends the loop
EarlyExit(incremental, filtered_articles, page_index) ==
  (incremental /\ Len(filtered_articles) = 0 /\ page_index > 3) /\ FALSE

\* the last-page test made on an empty page only
IsLastPageWhenEmpty(articles) == Len(articles) = 0

\* `if len(articles) < page_size: break`
IsLastPage(articles) == Len(articles) < page_size

\* `time.sleep(1)`: the seconds of the delay between two pages
sleep_seconds == 1

\* the frame of a get_all_articles call entering its while loop
LoopFrame(config, max_pages, incremental, since_time) ==
  [fn |-> "get_all_articles", config |-> config, page_index |-> 1,
   max_pages |-> max_pages, incremental |-> incremental,
   filter_time |-> FilterTime(since_time, incremental, last_crawl_time),
   running |-> LoopCondition(1, max_pages)]

\* The next iteration of the loop when the endpoint answers resp: the fetch,
\* the validity test, the total-pages stop, parse, filter, accumulate, the
\* last-page stop, the page increment and the loop test before the next fetch.
LoopIter(resp) ==
  /\ InLoop
  /\ Top.running
  /\ LET f     == Top
         data  == get_page_data(resp)
         check == PageCheck(data)
         next  == [f EXCEPT !.page_index = f.page_index + 1,
                            !.running = LoopCondition(f.page_index + 1, f.max_pages)]
         done  == [f EXCEPT !.running = FALSE]
         seen  == [op |-> "iteration", config |-> f.config, page_index |-> f.page_index,
                   data |-> data, seen_before |-> existing_article_ids,
                   articles_before |-> all_articles, frame |-> f,
                   \* the seconds slept by this iteration after its fetch
                   slept |-> 0]
     IN
     /\ fetched' = Append(fetched, [config |-> f.config, page_index |-> f.page_index,
                                    data |-> data])
     /\ IF check = "TypeError"
        THEN \* the exception leaves get_all_articles and every caller
             /\ stack' = <<>>
             /\ obs' = [seen EXCEPT !.op = "raised"] @@ [raised |-> "TypeError"]
             /\ UNCHANGED <<existing_article_ids, all_articles>>
        ELSE IF check = "invalid"
        THEN /\ stack' = Append(Pop, next)
             /\ obs' = seen @@ [outcome |-> "skipped"]
             /\ UNCHANGED <<existing_article_ids, all_articles>>
        ELSE IF PastTotal(data, f.page_index)
        THEN /\ stack' = Append(Pop, done)
             /\ obs' = seen @@ [outcome |-> "past_total"]
             /\ UNCHANGED <<existing_article_ids, all_articles>>
        ELSE LET articles == parse_articles(data)
                 filtered == UsesFilter(f.incremental, f.filter_time)
                 r        == filter_new_articles(articles, f.filter_time,
                                                 existing_article_ids)
                 added    == IF filtered THEN r.new_articles ELSE articles
             IN  IF filtered /\ r.raised # NoError
                 THEN \* _parse_timestamp's exception leaves every caller
                      /\ existing_article_ids' = r.existing_article_ids
                      /\ all_articles' = all_articles
                      /\ stack' = <<>>
                      /\ obs' = [seen EXCEPT !.op = "raised"]
                                  @@ [raised |-> r.raised, articles |-> articles]
                 ELSE
                 /\ existing_article_ids' =
                      IF filtered THEN r.existing_article_ids ELSE existing_article_ids
                 /\ all_articles' = all_articles \o added
                 /\ stack' = Append(Pop,
                      IF (filtered /\ EarlyExit(f.incremental, added, f.page_index))
                         \/ IsLastPage(articles)
                      THEN done ELSE next)
                 /\ obs' = [seen EXCEPT !.slept =
                               IF (filtered /\ EarlyExit(f.incremental, added, f.page_index))
                                  \/ IsLastPage(articles)
                               THEN 0 ELSE sleep_seconds]
                            @@ [outcome |-> IF IsLastPage(articles) THEN "last_page"
                                                ELSE "continued",
                                    articles |-> articles, filtered |-> filtered,
                                    added |-> added]
  /\ UNCHANGED <<impl, last_crawl_time, files, arg, server, unwritable>>

\* get_all_articles returns self.all_articles to a caller outside the class
LoopReturn ==
  /\ InLoop
  /\ ~Top.running
  /\ Len(stack) = 1
  /\ stack' = <<>>
  /\ obs' = [op |-> "get_all_articles", returned |-> all_articles, frame |-> Top]
  /\ UNCHANGED <<impl, existing_article_ids, last_crawl_time, all_articles, files,
                 fetched, arg, server, unwritable>>

\* get_all_articles(max_pages, config=None, incremental, since_time) called
\* from outside: config is self.current_config, "original" after __init__
GetAllArticlesCall ==
  /\ stack = <<>>
  /\ arg.op = "get_all_articles"
  /\ stack' = <<LoopFrame("original", arg.max_pages, arg.incremental, arg.since_time)>>
  /\ fetched' = <<>>
  /\ arg' = [arg EXCEPT !.op = "called"]
  /\ obs' = NoObs
  /\ UNCHANGED <<impl, existing_article_ids, last_crawl_time, all_articles, files,
                 server, unwritable>>

-----------------------------------------------------------------------------
(* The endpoint *)

\* item k of the forum's list: every third one edited after the sample time,
\* every third edited before it, every third never edited and published at it
RawItem(k) ==
  CASE k % 3 = 1 -> [postId |-> ToString(k), lastEditTime |-> TsSec(BaseSec + 1),
                     dateline |-> TsSec(BaseSec - 1)]
    [] k % 3 = 2 -> [postId |-> ToString(k), dateline |-> TsSec(BaseSec)]
    [] OTHER     -> [postId |-> ToString(k), lastEditTime |-> TsSec(BaseSec - 1),
                     dateline |-> TsSec(BaseSec + 1)]

Slice(first, n) == [i \in 1..n |-> RawItem(first + i - 1)]

Min(a, b) == IF a < b THEN a ELSE b
Max(a, b) == IF a > b THEN a ELSE b

\* page p of a list of n items, page_size items a page
PageOf(n, p) == Slice((p - 1) * page_size + 1, Max(0, Min(page_size, n - (p - 1) * page_size)))

\* five unseen posts, two edited before the sample time and three after it
ScenarioBPage ==
  << [postId |-> "b1", lastEditTime |-> TsSec(BaseSec - 1), dateline |-> TsSec(BaseSec - 1)],
     [postId |-> "b2", lastEditTime |-> TsMs(BaseSec + 1, 0), dateline |-> TsSec(BaseSec - 1)],
     [postId |-> "b3", lastEditTime |-> TsMs(BaseSec, 1), dateline |-> TsSec(BaseSec - 1)],
     [postId |-> "b4", lastEditTime |-> TsSec(BaseSec - 1), dateline |-> TsSec(BaseSec + 1)],
     [postId |-> "b5", lastEditTime |-> TsSec(BaseSec + 1), dateline |-> EmptyStr] >>

\* a post without identifier and time, one post three times, an empty id
OddPage ==
  << [dateline |-> TsText],
     RawItem(1),
     RawItem(1),
     [postId |-> "1", lastEditTime |-> TsMs(BaseSec + 2, 0)],
     [postId |-> "", lastEditTime |-> TsSec(BaseSec + 1)] >>

Body(items) == [data |-> [resultList |-> items]]
BodyWithTotal(items, total) == [data |-> [resultList |-> items, totalCount |-> total]]

\* bodies without data.resultList
NoDataBody == [code |-> 500]
NullDataBody == [code |-> 401, data |-> JsonNull]
NoListBody == [data |-> [totalCount |-> 14]]

AnyServer == [kind |-> "any"]
ConsistentServer(n) == [kind |-> "consistent", total |-> n]

-----------------------------------------------------------------------------
(* filter_new_articles called on an instance: the seen set, the page and    *)
(* since_time are drawn, the call is applied.                               *)

MaxFilterId == 2
MaxFilterLen == 2

FilterIds == {""} \cup {ToString(k) : k \in 1..MaxFilterId}

FilterArticles == {Article(id, tp[1], tp[2]) : id \in FilterIds, tp \in TimePairs}

FilterInit ==
  /\ impl = "package"
  /\ existing_article_ids \in SUBSET (FilterIds \ {""})
  /\ last_crawl_time = JsonNull
  /\ all_articles = <<>>
  /\ files = NoFiles
  /\ stack = <<>>
  /\ fetched = <<>>
  /\ server = NoServer
  /\ unwritable = {}
  /\ obs = NoObs
  /\ \E articles \in SeqsUpTo(FilterArticles, MaxFilterLen), since_time \in SinceTimes :
       arg = [op |-> "filter_new_articles", articles |-> articles,
              since_time |-> since_time]

FilterCall ==
  /\ arg.op = "filter_new_articles"
  /\ LET r == filter_new_articles(arg.articles, arg.since_time, existing_article_ids)
     IN  /\ existing_article_ids' = r.existing_article_ids
         /\ obs' = [op |-> IF r.raised = NoError THEN "filter_new_articles"
                           ELSE "raised",
                    fn |-> "filter_new_articles", raised |-> r.raised,
                    articles |-> arg.articles,
                    since_time |-> arg.since_time,
                    seen_before |-> existing_article_ids,
                    returned |-> r.new_articles]
  /\ arg' = NoArg
  /\ UNCHANGED <<impl, last_crawl_time, all_articles, files, stack, fetched, server, unwritable>>

FilterNext == FilterCall

SpecFilter == FilterInit /\ [][FilterNext]_vars

Filtered == obs.op = "filter_new_articles"

\* C1. Dedup correctness: filter_new_articles returns no record whose
\* identifier is non-empty and was in the seen set when the call began,
\* whatever since_time and the record's timestamps are; every returned record
\* has an empty identifier or one that was not seen before.
C1_DedupCorrect ==
  Filtered =>
    /\ \A r \in Range(obs.articles) :
         (r.id # "" /\ r.id \in obs.seen_before) => r \notin Range(obs.returned)
    /\ \A r \in Range(obs.returned) : r.id = "" \/ r.id \notin obs.seen_before

\* a page holding a seen record that passes the time check, next to a record
\* that is returned
C1_Witness ==
  /\ Filtered
  /\ obs.returned # <<>>
  /\ \E r \in Range(obs.articles) :
       /\ r.id # "" /\ r.id \in obs.seen_before
       /\ _is_article_newer(r, obs.since_time)
       /\ ~IsNone(obs.since_time)

\* record i of the page cannot be a duplicate: its identifier is empty, or is
\* neither in the seen set nor carried by an earlier record of the page
NotDuplicateAt(i) ==
  LET id == obs.articles[i].id IN
  \/ id = ""
  \/ /\ id \notin obs.seen_before
     /\ \A j \in 1..(i - 1) : obs.articles[j].id # id

\* C4. Time filter boundary: with since_time set, a non-duplicate record whose
\* effective time equals since_time is rejected and one whose effective time
\* is since_time plus one second is accepted.
C4_TimeBoundary ==
  (Filtered /\ ~IsNone(obs.since_time)) =>
    \A i \in DOMAIN obs.articles :
      LET r == obs.articles[i]
          t == ArticleTime(r)
      IN  (NotDuplicateAt(i) /\ ~IsNone(t)) =>
            /\ (t = obs.since_time) => r \notin Range(obs.returned)
            /\ (t = PlusOneSecond(obs.since_time)) => r \in Range(obs.returned)

\* a page with a record exactly at since_time (rejected) and a record one
\* second later (accepted)
C4_Witness ==
  /\ Filtered
  /\ ~IsNone(obs.since_time)
  /\ \E i, j \in DOMAIN obs.articles :
       /\ NotDuplicateAt(i) /\ NotDuplicateAt(j)
       /\ ArticleTime(obs.articles[i]) = obs.since_time
       /\ ArticleTime(obs.articles[j]) = PlusOneSecond(obs.since_time)
       /\ obs.articles[i] \notin Range(obs.returned)
       /\ obs.articles[j] \in Range(obs.returned)

-----------------------------------------------------------------------------
(* merge_and_save_incremental called on an instance, and its combination    *)
(* applied twice: the corpus file and the incoming results are drawn.       *)

MaxMergeLen == 2

MergeIds == {"", "1", "2", "3"}

\* the stored snapshot and the fresh crawl differ in their publish time
StoredArticles == {Article(id, EmptyStr, TsSec(BaseSec)) : id \in MergeIds}
FreshArticles == {Article(id, EmptyStr, TsSec(BaseSec + 1)) : id \in MergeIds}

\* the results of the two configurations: one incoming list cut at k
SplitResults(incoming, k) ==
  << [name |-> "original", articles |-> SubSeq(incoming, 1, k)],
     [name |-> "new_target", articles |-> SubSeq(incoming, k + 1, Len(incoming))] >>

MergeInit ==
  /\ impl \in Impls
  /\ existing_article_ids = {}
  /\ last_crawl_time = JsonNull
  /\ all_articles = <<>>
  /\ \E content \in {Absent} \cup {JsonFile(x) : x \in SeqsUpTo(StoredArticles, MaxMergeLen)} :
       files = [NoFiles EXCEPT ![AllJson] = content]
  /\ stack = <<>>
  /\ fetched = <<>>
  /\ server = NoServer
  /\ unwritable = {}
  /\ obs = NoObs
  /\ \/ \E incoming \in SeqsUpTo(FreshArticles, MaxMergeLen) :
          \E k \in 0..Len(incoming) :
            arg = [op |-> "merge_and_save_incremental",
                   new_results |-> SplitResults(incoming, k)]
     \/ /\ impl = "package"
        /\ files = NoFiles
        /\ \E x, y \in SeqsUpTo(StoredArticles \cup FreshArticles, MaxMergeLen) :
             arg = [op |-> "combine", existing |-> x, incoming |-> y]

MergeCall ==
  /\ arg.op = "merge_and_save_incremental"
  /\ merge_and_save_incremental(arg.new_results)
  /\ arg' = NoArg
  /\ UNCHANGED <<impl, last_crawl_time, all_articles, stack, fetched, server, unwritable>>

\* the combination of lines 504-509 applied to (X, Y) and then to (X, result)
CombineTwice ==
  /\ arg.op = "combine"
  /\ obs' = [op |-> "combine", existing |-> arg.existing, incoming |-> arg.incoming,
             once |-> Combine(arg.existing, arg.incoming),
             twice |-> Combine(arg.existing, Combine(arg.existing, arg.incoming))]
  /\ arg' = NoArg
  /\ UNCHANGED <<impl, existing_article_ids, last_crawl_time, all_articles, files,
                 stack, fetched, server, unwritable>>

MergeNext == MergeCall \/ CombineTwice

SpecMerge == MergeInit /\ [][MergeNext]_vars

Merged == obs.op = "merge_and_save_incremental" /\ obs.raised = NoError

\* the list the corpus file held when the call began (none: the empty list)
StoredBefore ==
  IF obs.files_before[AllJson].kind = "json" THEN obs.files_before[AllJson].value
  ELSE <<>>

\* the incoming records whose identifier is empty or belongs to no record of
\* `existing`, in their order
NotStoredYet(existing, incoming) ==
  LET Keep(a) == a.id = "" \/ \A i \in DOMAIN existing : existing[i].id # a.id
  IN  SelectSeq(incoming, Keep)

\* C2. Merge reference: the corpus written by merge_and_save_incremental is
\* the stored list followed by exactly the incoming records whose identifier
\* is empty or is no identifier of a stored record, both in their own order.
C2_MergeReference ==
  Merged =>
    files[AllJson] =
      JsonFile(StoredBefore \o NotStoredYet(StoredBefore, AllNewArticles(obs.new_results)))

Combined == obs.op = "combine"

\* C3 as stated. Idempotent merge: merge(X, merge(X, Y)) = merge(X, Y) for
\* all record lists X and Y, lists with empty identifiers included.
C3_IdempotentAnyLists == Combined => obs.twice = obs.once

\* C3 amended. merge(X, merge(X, Y)) = merge(X, Y) for all record lists X and
\* Y in which no record of X has an empty identifier (Y may hold some).
C3_IdempotentMerge ==
  (Combined /\ \A i \in DOMAIN obs.existing : obs.existing[i].id # "")
    => obs.twice = obs.once

\* X and Y share an identifier, Y brings a new one and a record without one
C3_Witness ==
  /\ Combined
  /\ \A i \in DOMAIN obs.existing : obs.existing[i].id # ""
  /\ \E i \in DOMAIN obs.existing, j \in DOMAIN obs.incoming :
       obs.existing[i].id = obs.incoming[j].id
  /\ Len(obs.once) > Len(obs.existing)
  /\ obs.twice = obs.once

-----------------------------------------------------------------------------
(* get_all_articles called once on an instance, against an endpoint that    *)
(* may answer each request with a failure, a body without data.resultList   *)
(* or any of a few pages, with or without totalCount.                       *)

MaxPagesBound == 3

CrawlTotals == {0, 14, 100}

CrawlPages(p) ==
  {PageOf(100, p), Slice(1, 2), <<>>, ScenarioBPage, OddPage}

CrawlAnswers(p) ==
  {RequestFailed, Answer(NoDataBody), Answer(NullDataBody), Answer(NoListBody)}
    \cup {Answer(Body(items)) : items \in CrawlPages(p)}
    \cup {Answer(BodyWithTotal(items, total)) : items \in CrawlPages(p),
                                                 total \in CrawlTotals}

\* (incremental, since_time, self.last_crawl_time): a full crawl, incremental
\* crawls without and with a loaded history, a crawl with since_time given
CrawlModes ==
  { <<FALSE, JsonNull, JsonNull>>, <<TRUE, JsonNull, JsonNull>>,
    <<TRUE, JsonNull, SampleTime>>, <<FALSE, SampleTime, JsonNull>> }

\* (seen set, accumulator) of a fresh instance and of one on which an earlier
\* incremental crawl accepted items 1 and 13
CrawlPreStates ==
  { <<{}, <<>>>>,
    <<{"1", "13"}, <<ParseItem(RawItem(1)), ParseItem(RawItem(13))>>>> }

CrawlInit ==
  /\ \E pre \in CrawlPreStates :
       /\ existing_article_ids = pre[1]
       /\ all_articles = pre[2]
  /\ files = NoFiles
  /\ stack = <<>>
  /\ fetched = <<>>
  /\ server = AnyServer
  /\ unwritable = {}
  /\ obs = NoObs
  /\ \E mode \in CrawlModes, max_pages \in 0..MaxPagesBound :
       /\ last_crawl_time = mode[3]
       \* only the script's load_crawl_history ever sets last_crawl_time
       /\ impl = IF IsNone(mode[3]) THEN "package" ELSE "script"
       /\ arg = [op |-> "get_all_articles", max_pages |-> max_pages,
                 incremental |-> mode[1], since_time |-> mode[2]]

CrawlIter ==
  /\ server = AnyServer
  /\ InLoop
  /\ \E resp \in CrawlAnswers(Top.page_index) : LoopIter(resp)

CrawlNext == GetAllArticlesCall \/ CrawlIter \/ LoopReturn

SpecCrawl == CrawlInit /\ [][CrawlNext]_vars

\* the loop is a sequential program: a started call keeps running
SpecCrawlFair == SpecCrawl /\ WF_vars(CrawlNext)

\* body e.data carries data.resultList
HasList(data) ==
  /\ "data" \in DOMAIN data
  /\ ~IsNone(data.data)
  /\ "resultList" \in DOMAIN data.data

\* request i got a page of fewer than page_size raw records, at a page index
\* within the total pages the body declares (if it declares any)
ShortPageAt(i) ==
  LET e == fetched[i] IN
  /\ HasList(e.data)
  /\ Len(e.data.data.resultList) < page_size
  /\ "totalCount" \in DOMAIN e.data.data =>
       e.page_index * page_size < e.data.data.totalCount + page_size

\* positions of the records filter_new_articles accepts, stated on the page:
\* the record passes the time check and its identifier is empty, or is not
\* in the seen set and on no earlier record of the page that passes the check
AcceptedAt(articles, since_time, seen) ==
  {i \in DOMAIN articles :
     /\ _is_article_newer(articles[i], since_time)
     /\ \/ articles[i].id = ""
        \/ /\ articles[i].id \notin seen
           /\ \A j \in 1..(i - 1) :
                articles[j].id = articles[i].id
                  => ~_is_article_newer(articles[j], since_time)}

RECURSIVE Pick(_, _, _)
\* the records of s at the positions in `at`, from position i on, in order
Pick(s, at, i) ==
  IF i > Len(s) THEN <<>>
  ELSE IF i \in at THEN <<s[i]>> \o Pick(s, at, i + 1)
  ELSE Pick(s, at, i + 1)

Accepted(articles, since_time, seen) ==
  Pick(articles, AcceptedAt(articles, since_time, seen), 1)

Iterated == obs.op = "iteration"

\* C5. Last-page detection: once a valid page within the declared total pages
\* returns fewer than page_size raw records, its records are processed (all
\* of them in full mode, the accepted ones under the filter) and it is the
\* last page fetched, whatever totalCount and max_pages allow.
C5_LastPage ==
  \A i \in DOMAIN fetched :
    ShortPageAt(i) =>
      /\ i = Len(fetched)
      /\ stack # <<>> => ~Top.running
      /\ Iterated =>
           LET page == [k \in DOMAIN fetched[i].data.data.resultList |->
                          ParseItem(fetched[i].data.data.resultList[k])]
           IN  all_articles = obs.articles_before \o
                 (IF IsNone(obs.frame.filter_time) /\ ~obs.frame.incremental THEN page
                  ELSE Accepted(page, obs.frame.filter_time, obs.seen_before))

\* page 1 of 3 allowed pages is short while totalCount announces 100 records
C5_Witness ==
  /\ Iterated
  /\ Len(fetched) = 1
  /\ ShortPageAt(1)
  /\ Len(fetched[1].data.data.resultList) = 2
  /\ "totalCount" \in DOMAIN fetched[1].data.data
  /\ fetched[1].data.data.totalCount = 100
  /\ arg.max_pages = 3
  /\ Len(all_articles) = Len(obs.articles_before) + 2
  /\ ~Top.running

\* C6. Bounded termination: whatever the endpoint answers, a started crawl
\* loop ends, having issued at most max_pages requests, none for a page index
\* above max_pages.
C6_BoundedTermination ==
  /\ [](arg.op = "called" =>
          /\ Len(fetched) <= arg.max_pages
          /\ \A i \in DOMAIN fetched : fetched[i].page_index <= arg.max_pages)
  /\ (arg.op = "get_all_articles") ~> (arg.op = "called" /\ stack = <<>>)

\* max_pages requests were issued, failures and bodies without a list among
\* them, and the call has returned
C6_Witness ==
  /\ arg.op = "called"
  /\ stack = <<>>
  /\ arg.max_pages = 3
  /\ Len(fetched) = 3
  /\ \E i, j \in DOMAIN fetched :
       /\ fetched[i].data = <<>>
       /\ fetched[j].data = NoListBody
  /\ obs.op = "get_all_articles"

\* C7. An invalid page is purely skipped: after a failed fetch or a body
\* without data.resultList the loop goes on, accumulator and seen set as
\* before; the page index is not requested again and the next request, if
\* page index + 1 <= max_pages, is for page index + 1.
C7_InvalidSkipped ==
  /\ \A i \in DOMAIN fetched :
       (~HasList(fetched[i].data) /\ i < Len(fetched))
         => fetched[i + 1].page_index = fetched[i].page_index + 1
  /\ (obs.op \in {"iteration", "raised"} /\ ~HasList(fetched[Len(fetched)].data)) =>
       /\ InLoop
       /\ Top.page_index = obs.page_index + 1
       /\ Top.running = (obs.page_index + 1 <= arg.max_pages)
       /\ all_articles = obs.articles_before
       /\ existing_article_ids = obs.seen_before

\* C9. Filter side effect: when a page goes through filter_new_articles, the
\* seen set afterwards is the seen set before plus the non-empty identifiers
\* of exactly the accepted records, and the accumulator grows by exactly the
\* accepted records in page order; a page of 5 distinct unseen records, 2
\* updated before since_time and 3 after, adds exactly 3 to each.
C9_FilterEffect ==
  (Iterated /\ "filtered" \in DOMAIN obs /\ obs.filtered) =>
    LET accepted == Accepted(obs.articles, obs.frame.filter_time, obs.seen_before)
        ids      == {obs.articles[i].id : i \in DOMAIN obs.articles}
        before   == {i \in DOMAIN obs.articles :
                       ~IsNone(_parse_timestamp(obs.articles[i].update_time))
                       /\ BigGt(obs.frame.filter_time,
                                _parse_timestamp(obs.articles[i].update_time))}
        after    == {i \in DOMAIN obs.articles :
                       ~IsNone(_parse_timestamp(obs.articles[i].update_time))
                       /\ BigGt(_parse_timestamp(obs.articles[i].update_time),
                                obs.frame.filter_time)}
    IN  /\ existing_article_ids =
             obs.seen_before \cup ({accepted[i].id : i \in DOMAIN accepted} \ {""})
        /\ all_articles = obs.articles_before \o accepted
        /\ ( /\ ~IsNone(obs.frame.filter_time)
             /\ Len(obs.articles) = 5 /\ Cardinality(ids) = 5
             /\ "" \notin ids /\ ids \cap obs.seen_before = {}
             /\ Cardinality(before) = 2 /\ Cardinality(after) = 3 )
           => /\ Len(all_articles) = Len(obs.articles_before) + 3
              /\ Cardinality(existing_article_ids) = Cardinality(obs.seen_before) + 3

\* the page of scenario B went through the filter, on top of an accumulator
\* and a seen set that were not empty
C9_Witness ==
  /\ Iterated /\ "filtered" \in DOMAIN obs /\ obs.filtered
  /\ obs.data.data.resultList = ScenarioBPage
  /\ ~IsNone(obs.frame.filter_time)
  /\ obs.seen_before = {"1", "13"}
  /\ obs.articles_before # <<>>
  /\ Len(all_articles) = Len(obs.articles_before) + 3
  /\ Cardinality(existing_article_ids) = 5

-----------------------------------------------------------------------------
(* A full-mode get_all_articles against a consistent endpoint: every fetch  *)
(* succeeds, totalCount is the constant server.total and page i carries     *)
(* items (i-1)*page_size+1 .. min(i*page_size, total).                      *)

MaxTotal == 25

\* (implementation, seen set): a fresh instance, and the script after
\* load_existing_data read a corpus holding items 1 and 13
ConsistentPreStates == { <<"package", {}>>, <<"script", {"1", "13"}>> }

ConsistentInit ==
  /\ \E pre \in ConsistentPreStates :
       /\ impl = pre[1]
       /\ existing_article_ids = pre[2]
  /\ last_crawl_time = JsonNull
  /\ all_articles = <<>>
  /\ files = NoFiles
  /\ stack = <<>>
  /\ fetched = <<>>
  /\ obs = NoObs
  /\ \E n \in 0..MaxTotal : server = ConsistentServer(n)
  /\ unwritable = {}
  /\ \E max_pages \in 0..MaxPagesBound :
       arg = [op |-> "get_all_articles", max_pages |-> max_pages,
              incremental |-> FALSE, since_time |-> JsonNull]

ConsistentIter ==
  /\ server.kind = "consistent"
  /\ InLoop
  /\ LoopIter(Answer(BodyWithTotal(PageOf(server.total, Top.page_index), server.total)))

ConsistentNext == GetAllArticlesCall \/ ConsistentIter \/ LoopReturn

SpecConsistent == ConsistentInit /\ [][ConsistentNext]_vars

Returned == obs.op = "get_all_articles"

\* C8. Complete full crawl against a consistent server: with max_pages large
\* enough for the N records, a full-mode get_all_articles started with an
\* empty accumulator returns exactly records 1..N in order, each once, for
\* every N >= 0, multiples of page_size included; with N = 14 it fetches
\* page 1 (12 records) and page 2 (2 records) and stops.
C8_CompleteCrawl ==
  (Returned /\ server.total <= arg.max_pages * page_size) =>
    /\ obs.returned = [k \in 1..server.total |-> ParseItem(RawItem(k))]
    /\ \A i \in DOMAIN fetched : fetched[i].page_index = i
    /\ server.total = 14 =>
         /\ Len(fetched) = 2
         /\ Len(fetched[1].data.data.resultList) = 12
         /\ Len(fetched[2].data.data.resultList) = 2

\* 14 records were returned after the two fetches of scenario A
C8_Witness ==
  /\ Returned
  /\ server.kind = "consistent"
  /\ server.total = 14
  /\ arg.max_pages = 3
  /\ Len(obs.returned) = 14
  /\ Len(fetched) = 2

\* a multiple of page_size: 24 records over two full pages, the third
\* request answered past the declared total
C8_MultipleOfPageSize ==
  /\ Returned
  /\ server.total = 24
  /\ Len(obs.returned) = 24
  /\ Len(fetched) = 3

-----------------------------------------------------------------------------
(* The crawl history file *)

\* datetime.isoformat() and datetime.fromisoformat() of an aware datetime:
\* the text carries the instant in full, parsing gives it back
isoformat(t) == [iso |-> t]
fromisoformat(text) == text.iso

\* fromisoformat of a text that is no ISO date raises ValueError, of a value
\* that is no str TypeError
FromIsoRaises(text) ==
  IF "iso" \in DOMAIN text THEN NoError
  ELSE IF "str" \in DOMAIN text THEN "ValueError"
  ELSE "TypeError"

\* the dict save_crawl_history writes
HistoryRecord(now, articles) ==
  [last_crawl_time |-> isoformat(now), total_articles |-> Len(articles)]

\* the except clause of load_crawl_history:
\*  package `except Exception`,
\*  script `except (json.JSONDecodeError, IOError, ValueError)`
\*  (UnicodeDecodeError is a ValueError)
LoadHistoryCatches(exc) ==
  IF impl = "package" THEN TRUE
  ELSE exc \in {"JSONDecodeError", "IOError", "ValueError", "UnicodeDecodeError"}

\* load_crawl_history on the directory fs: self.last_crawl_time afterwards
\* and the exception that escapes
load_crawl_history(fs, last) ==
  IF fs[HistoryJson].kind = "absent"
  THEN [last_crawl_time |-> last, raised |-> NoError]
  ELSE LET r == ReadJson(fs[HistoryJson])
           \* history.get on None or on a list raises AttributeError
           last_crawl_str == IF r.shape # "json" THEN JsonNull
                             ELSE Get(r.value, "last_crawl_time", JsonNull)
           exc == IF r.raised # NoError THEN r.raised
                  ELSE IF r.shape # "json" THEN "AttributeError"
                  ELSE IF IsNone(last_crawl_str) \/ last_crawl_str = EmptyStr THEN NoError
                  ELSE FromIsoRaises(last_crawl_str)
       IN
       IF exc # NoError
       THEN [last_crawl_time |-> last,
             raised |-> IF LoadHistoryCatches(exc) THEN NoError ELSE exc]
       ELSE [last_crawl_time |-> IF IsNone(last_crawl_str) \/ last_crawl_str = EmptyStr
                                 THEN last
                                 ELSE fromisoformat(last_crawl_str),
             raised |-> NoError]

\* save_crawl_history when the clock reads now
\* (the write's OSError is caught and logged: package `except Exception`,
\* script `except IOError`)
save_crawl_history(fs, now, articles) ==
  IF WriteFails(HistoryJson) THEN fs
  ELSE [fs EXCEPT ![HistoryJson] = JsonFile(HistoryRecord(now, articles))]

-----------------------------------------------------------------------------
(* One spider instance over its life: the public operations called one      *)
(* after another, a crawl advancing one loop iteration per step.            *)

MaxCalls == 2
MaxLifePages == 1

\* list(self.configs.keys())
ConfigNames == <<"original", "new_target">>

\* readings of datetime.now(timezone.utc) during the run
Clock == {PlusOneSecond(SampleTime), PlusOneSecond(PlusOneSecond(SampleTime))}

LifeAnswers ==
  {RequestFailed, Answer(Body(Slice(1, 2))), Answer(BodyWithTotal(Slice(3, 2), 2))}

\* what earlier runs left in the data directory: nothing, a corpus holding
\* item 1 written by a full crawl, or that corpus and the history of an
\* incremental crawl at the sample time
LifeFiles ==
  { NoFiles,
    [NoFiles EXCEPT ![AllJson] = JsonFile(<<ParseItem(RawItem(1))>>),
                    ![AllCsv] = CsvFile(<<ParseItem(RawItem(1))>>)],
    [NoFiles EXCEPT ![AllJson] = JsonFile(<<ParseItem(RawItem(1))>>),
                    ![AllCsv] = CsvFile(<<ParseItem(RawItem(1))>>),
                    ![HistoryJson] = JsonFile(HistoryRecord(SampleTime,
                                                <<ParseItem(RawItem(1))>>))] }

Init ==
  /\ impl \in Impls
  /\ existing_article_ids = {}
  /\ last_crawl_time = JsonNull
  /\ all_articles = <<>>
  /\ files \in LifeFiles
  /\ stack = <<>>
  /\ fetched = <<>>
  /\ server = AnyServer
  /\ unwritable \in {{}, {HistoryJson}}
  /\ obs = NoObs
  /\ arg = [op |-> "lifecycle", remaining |-> MaxCalls]

Idle == stack = <<>> /\ arg.op = "lifecycle" /\ arg.remaining > 0

Called == [arg EXCEPT !.remaining = arg.remaining - 1]

InBatch == stack # <<>> /\ Top.fn = "get_all_articles_batch"

\* every name crawled, registered or not
SkipNothing(config_names) == config_names

\* `if config_name not in self.configs: continue`: the names the for loop
\* passes over before the next registered one
RECURSIVE SkipUnregistered(_)
SkipUnregistered(config_names) ==
  IF config_names = <<>> \/ Head(config_names) \in Configs THEN config_names
  ELSE SkipUnregistered(Tail(config_names))

\* results[config_name] = articles.copy() on the dict kept in insertion order
DictSet(results, config_name, articles) ==
  IF \E i \in DOMAIN results : results[i].name = config_name
  THEN [i \in DOMAIN results |->
          IF results[i].name = config_name
          THEN [name |-> config_name, articles |-> articles] ELSE results[i]]
  ELSE Append(results, [name |-> config_name, articles |-> articles])

\* the frame of get_all_articles_batch(config_names, ...) entering its for
\* loop (config_names None: list(self.configs.keys()), passed as ConfigNames)
BatchFrame(config_names, max_pages, incremental, since_time) ==
  [fn |-> "get_all_articles_batch", config_names |-> config_names,
   todo |-> SkipUnregistered(config_names), results |-> <<>>,
   max_pages |-> max_pages, incremental |-> incremental, since_time |-> since_time,
   temp_articles |-> <<>>, articles_at_call |-> all_articles]

\* load_existing_data() called from outside
LoadExistingDataCall ==
  /\ Idle
  /\ LET loaded == load_existing_data(AllJson, files, existing_article_ids)
     IN  /\ existing_article_ids' = loaded.existing_article_ids
         /\ obs' = [op |-> "load_existing_data", returned |-> loaded.articles,
                    raised |-> loaded.raised, seen_before |-> existing_article_ids]
  /\ arg' = Called
  /\ UNCHANGED <<impl, last_crawl_time, all_articles, files, stack, fetched, server, unwritable>>

\* filter_new_articles(articles, since_time) called from outside on a page
FilterNewArticlesCall ==
  /\ Idle
  /\ LET articles == parse_articles(Body(Slice(1, 2)))
         r        == filter_new_articles(articles, last_crawl_time, existing_article_ids)
     IN  /\ existing_article_ids' = r.existing_article_ids
         /\ obs' = [op |-> "filter_new_articles", articles |-> articles,
                    since_time |-> last_crawl_time,
                    seen_before |-> existing_article_ids,
                    returned |-> r.new_articles]
  /\ arg' = Called
  /\ UNCHANGED <<impl, last_crawl_time, all_articles, files, stack, fetched, server, unwritable>>

\* get_all_articles(max_pages, incremental=...) called from outside
CrawlCall ==
  /\ Idle
  /\ \E incremental \in BOOLEAN :
       stack' = <<LoopFrame("original", MaxLifePages, incremental, JsonNull)>>
  /\ fetched' = <<>>
  /\ obs' = [op |-> "call", fn |-> "get_all_articles"]
  /\ arg' = Called
  /\ UNCHANGED <<impl, existing_article_ids, last_crawl_time, all_articles, files,
                 server, unwritable>>

\* get_all_articles_batch(max_pages=...) called from outside, full mode
BatchCall ==
  /\ Idle
  /\ stack' = <<BatchFrame(ConfigNames, MaxLifePages, FALSE, JsonNull)>>
  /\ fetched' = <<>>
  /\ obs' = [op |-> "call", fn |-> "get_all_articles_batch"]
  /\ arg' = Called
  /\ UNCHANGED <<impl, existing_article_ids, last_crawl_time, all_articles, files,
                 server, unwritable>>

\* incremental_crawl(max_pages=...) up to its call of get_all_articles_batch:
\* load_crawl_history, load_existing_data
IncrementalCrawlCall ==
  /\ Idle
  /\ LET hist   == load_crawl_history(files, last_crawl_time)
         loaded == load_existing_data(AllJson, files, existing_article_ids)
     IN  IF hist.raised # NoError
         THEN /\ stack' = <<>>
              /\ obs' = [op |-> "raised", fn |-> "incremental_crawl",
                         raised |-> hist.raised]
              /\ UNCHANGED <<last_crawl_time, existing_article_ids>>
         ELSE /\ last_crawl_time' = hist.last_crawl_time
              /\ existing_article_ids' = loaded.existing_article_ids
              /\ IF loaded.raised # NoError
                 THEN /\ stack' = <<>>
                      /\ obs' = [op |-> "raised", fn |-> "incremental_crawl",
                                 raised |-> loaded.raised]
                 ELSE /\ stack' = <<[fn |-> "incremental_crawl",
                                      existing_articles |-> loaded.articles,
                                      seen_at_call |-> existing_article_ids],
                                     BatchFrame(ConfigNames, MaxLifePages, TRUE, JsonNull)>>
                      /\ obs' = [op |-> "call", fn |-> "incremental_crawl"]
  /\ fetched' = <<>>
  /\ arg' = Called
  /\ UNCHANGED <<impl, all_articles, files, server, unwritable>>

\* the batch loop enters the next configuration: the accumulator is set
\* aside and emptied, get_all_articles is called
BatchNext ==
  /\ InBatch
  /\ Top.todo # <<>>
  /\ stack' = Append(Pop, [Top EXCEPT !.temp_articles = all_articles])
                \o <<LoopFrame(Head(Top.todo), Top.max_pages, Top.incremental,
                               Top.since_time)>>
  /\ all_articles' = <<>>
  /\ obs' = [op |-> "batch_next", config |-> Head(Top.todo),
             articles_before |-> all_articles]
  /\ UNCHANGED <<impl, existing_article_ids, last_crawl_time, files, fetched, arg,
                 server, unwritable>>

LifeIter ==
  /\ arg.op = "lifecycle"
  /\ InLoop
  /\ \E resp \in LifeAnswers : LoopIter(resp)

\* get_all_articles returns into the batch loop: the result is recorded under
\* the configuration and the accumulator restored in front of it
LoopReturnToBatch ==
  /\ InLoop
  /\ ~Top.running
  /\ Len(stack) > 1
  /\ LET batch == stack[Len(stack) - 1] IN
     /\ stack' = Append(SubSeq(stack, 1, Len(stack) - 2),
                        [batch EXCEPT !.todo = SkipUnregistered(Tail(batch.todo)),
                                      !.results = DictSet(batch.results, Top.config,
                                                          all_articles)])
     /\ all_articles' = batch.temp_articles \o all_articles
     /\ obs' = [op |-> "batch_config", config |-> Top.config,
                returned |-> all_articles, temp_articles |-> batch.temp_articles]
  /\ UNCHANGED <<impl, existing_article_ids, last_crawl_time, files, fetched, arg,
                 server, unwritable>>

\* get_all_articles_batch returns to a caller outside the class
BatchReturn ==
  /\ InBatch
  /\ Top.todo = <<>>
  /\ Len(stack) = 1
  /\ stack' = <<>>
  /\ obs' = [op |-> "get_all_articles_batch", returned |-> Top.results,
             config_names |-> Top.config_names, incremental |-> Top.incremental,
             articles_before |-> Top.articles_at_call]
  /\ UNCHANGED <<impl, existing_article_ids, last_crawl_time, all_articles, files,
                 fetched, arg, server, unwritable>>

\* incremental_crawl after the batch: the loaded corpus is put in front of
\* the results, the history is written
IncrementalCrawlReturn ==
  /\ InBatch
  /\ Top.todo = <<>>
  /\ Len(stack) = 2
  /\ LET existing_articles == stack[1].existing_articles
         combined == IF existing_articles # <<>>
                     THEN existing_articles \o AllNewArticles(Top.results)
                     ELSE all_articles
     IN  /\ all_articles' = combined
         /\ \E now \in Clock :
              /\ IF IsNone(last_crawl_time) THEN TRUE ELSE ~BigGt(last_crawl_time, now)
              /\ files' = save_crawl_history(files, now, combined)
  /\ stack' = <<>>
  /\ obs' = [op |-> "incremental_crawl", returned |-> Top.results,
             existing_articles |-> stack[1].existing_articles,
             seen_at_call |-> stack[1].seen_at_call]
  /\ UNCHANGED <<impl, existing_article_ids, last_crawl_time, fetched, arg, server, unwritable>>

\* merge_and_save_incremental(results) with the results of the crawl that
\* has just returned
MergeAndSaveCall ==
  /\ Idle
  /\ obs.op \in {"incremental_crawl", "get_all_articles_batch"}
  /\ merge_and_save_incremental(obs.returned)
  /\ arg' = Called
  /\ UNCHANGED <<impl, last_crawl_time, all_articles, stack, fetched, server, unwritable>>

\* the process ends and a new ArticleSpider is constructed over the same
\* data directory
Restart ==
  /\ Idle
  /\ obs.op \notin {"none", "restart"}
  /\ existing_article_ids' = {}
  /\ last_crawl_time' = JsonNull
  /\ all_articles' = <<>>
  /\ fetched' = <<>>
  /\ obs' = [op |-> "restart"]
  /\ UNCHANGED <<impl, files, stack, arg, server, unwritable>>

Next ==
  \/ Restart
  \/ LoadExistingDataCall
  \/ FilterNewArticlesCall
  \/ CrawlCall
  \/ BatchCall
  \/ IncrementalCrawlCall
  \/ BatchNext
  \/ LifeIter
  \/ LoopReturn
  \/ LoopReturnToBatch
  \/ BatchReturn
  \/ IncrementalCrawlReturn
  \/ MergeAndSaveCall

Spec == Init /\ [][Next]_vars

InIncrementalCrawl == stack # <<>> /\ stack[1].fn = "incremental_crawl"

\* the effective time of the record is later than t, or it has none
NotStale(article, t) ==
  LET update_time  == _parse_timestamp(Get(article, "update_time", EmptyStr))
      publish_time == _parse_timestamp(Get(article, "publish_time", EmptyStr))
      effective    == IF ~IsNone(update_time) THEN update_time ELSE publish_time
  IN  IsNone(effective) \/ (~IsNone(effective) /\ BigGt(effective, t))

\* C11. History round trip: an incremental_crawl that starts over a history
\* file written by save_crawl_history filters with the saved last_crawl_time:
\* no record whose effective time is not later than it is accepted.
C11_HistoryRoundTrip ==
  (Iterated /\ InIncrementalCrawl /\ files[HistoryJson].kind = "json") =>
    LET saved == fromisoformat(files[HistoryJson].value.last_crawl_time) IN
    /\ obs.frame.filter_time = saved
    /\ "added" \in DOMAIN obs =>
         \A i \in DOMAIN obs.added : NotStale(obs.added[i], saved)

\* the records of the corpus file, none when it is absent or unreadable
CorpusOnDisk == IF files[AllJson].kind = "json" THEN files[AllJson].value ELSE <<>>

\* incremental_crawl has returned and written the history, and
\* merge_and_save_incremental has not run yet
HistoryWritten == obs.op = "incremental_crawl" /\ files[HistoryJson].kind = "json"

\* C12. The history is advanced only after the corpus is persisted: in no
\* state does the history file carry the run's last_crawl_time while a
\* record accepted in that run is missing from the corpus file.
C12_HistoryAfterCorpus ==
  HistoryWritten =>
    \A r \in Range(AllNewArticles(obs.returned)) : r \in Range(CorpusOnDisk)

\* C13. Absent history means no time filtering: in an incremental_crawl
\* that starts without a history file, a page loses to the filter only its
\* duplicates, and every record whose non-empty identifier is in the
\* readable corpus file is rejected as one.
C13_AbsentHistory ==
  (Iterated /\ InIncrementalCrawl /\ files[HistoryJson].kind = "absent"
     /\ "added" \in DOMAIN obs) =>
    /\ obs.added = Accepted(obs.articles, JsonNull, obs.seen_before)
    /\ \A i \in DOMAIN obs.added :
         obs.added[i].id # "" => obs.added[i].id \notin IdsOf(CorpusOnDisk)

-----------------------------------------------------------------------------
(* The operations that write the corpus, over a data directory some of      *)
(* whose files cannot be written.                                           *)

PersistArticles == {Article(id, EmptyStr, TsSec(BaseSec + 1)) : id \in {"2", "3"}}

PersistResults ==
  UNION { {SplitResults(incoming, k) : k \in 0..Min(1, Len(incoming))} :
          incoming \in SeqsUpTo(PersistArticles, MaxMergeLen) }

Unwritables ==
  { {}, {AllJson}, {AllCsv}, {IncrementalJson("original")}, {BatchJson("original")},
    {AllJson, AllCsv} }

PersistInit ==
  /\ impl \in Impls
  /\ existing_article_ids = {}
  /\ last_crawl_time = JsonNull
  /\ all_articles = <<>>
  /\ \E content \in {Absent, JsonFile(<<Article("1", EmptyStr, TsSec(BaseSec))>>)} :
       files = [NoFiles EXCEPT ![AllJson] = content]
  /\ stack = <<>>
  /\ fetched = <<>>
  /\ server = NoServer
  /\ unwritable \in Unwritables
  /\ obs = NoObs
  /\ \/ \E r \in PersistResults :
          arg \in {[op |-> "merge_and_save_incremental", new_results |-> r],
                   [op |-> "save_batch_results", batch_results |-> r]}
     \/ \E articles \in SeqsUpTo(PersistArticles, 1) :
          arg = [op |-> "save_to_json", filename |-> AllJson, articles |-> articles]

\* save_to_json(filename, articles) called from outside
SaveToJsonCall ==
  /\ arg.op = "save_to_json"
  /\ LET saved == save_to_json(Ok(files), arg.filename, arg.articles) IN
     /\ files' = saved.files
     /\ obs' = [op |-> "save_to_json", raised |-> saved.raised,
                filename |-> arg.filename, articles |-> arg.articles,
                files_before |-> files]
  /\ arg' = NoArg
  /\ UNCHANGED <<impl, existing_article_ids, last_crawl_time, all_articles, stack,
                 fetched, server, unwritable>>

\* save_batch_results(batch_results) called from outside
SaveBatchResultsCall ==
  /\ arg.op = "save_batch_results"
  /\ LET saved == save_batch_results(files, arg.batch_results) IN
     /\ files' = saved.files
     /\ obs' = [op |-> "save_batch_results", raised |-> saved.raised,
                batch_results |-> arg.batch_results, files_before |-> files]
  /\ arg' = NoArg
  /\ UNCHANGED <<impl, existing_article_ids, last_crawl_time, all_articles, stack,
                 fetched, server, unwritable>>

PersistNext == MergeCall \/ SaveToJsonCall \/ SaveBatchResultsCall

SpecPersist == PersistInit /\ [][PersistNext]_vars

\* the records the finished operation had to put into the corpus file
ToPersist ==
  CASE obs.op = "merge_and_save_incremental" ->
         {r \in Range(AllNewArticles(obs.new_results)) :
            r.id \notin IdsOf(IF obs.files_before[AllJson].kind = "json"
                              THEN obs.files_before[AllJson].value ELSE <<>>)}
    [] obs.op = "save_batch_results" -> Range(AllNewArticles(obs.batch_results))
    [] obs.op = "save_to_json" -> Range(obs.articles)
    [] OTHER -> {}

\* the finished operation got as far as writing the corpus file
WritesCorpus ==
  \/ obs.op \in {"merge_and_save_incremental", "save_to_json"}
  \/ obs.op = "save_batch_results" /\ AllNewArticles(obs.batch_results) # <<>>

\* C14. A corpus persist failure is fatal: when the corpus file cannot be
\* written, merge_and_save_incremental, save_to_json and save_batch_results
\* end with an exception; when they end normally the corpus file is a JSON
\* file holding the records they had to persist.
C14_PersistFailureFatal ==
  WritesCorpus =>
    /\ WriteFails(AllJson) => obs.raised # NoError
    /\ obs.raised = NoError =>
         /\ files[AllJson].kind = "json"
         /\ ToPersist \subseteq Range(files[AllJson].value)

\* the merge of a crawl's records raised on the corpus file and left the
\* directory as it was
C14_Witness ==
  /\ obs.op = "merge_and_save_incremental"
  /\ WriteFails(AllJson)
  /\ AllNewArticles(obs.new_results) # <<>>
  /\ obs.raised = "OSError"
  /\ files = obs.files_before

\* incremental_crawl has returned normally
IncrementalReturned == obs.op = "incremental_crawl"

\* C15. The history save succeeds or raises: incremental_crawl never returns
\* normally without the history file holding the last_crawl_time and the
\* record count written at the end of this run.
C15_HistorySaved ==
  IncrementalReturned =>
    /\ files[HistoryJson].kind = "json"
    /\ fromisoformat(files[HistoryJson].value.last_crawl_time) \in Clock
    /\ files[HistoryJson].value.total_articles = Len(all_articles)

\* the step is the normal return of incremental_crawl
IncrementalReturns ==
  /\ InIncrementalCrawl
  /\ stack' = <<>>
  /\ obs'.op = "incremental_crawl"

\* C16. The history is written at the end of every incremental run: the
\* step in which incremental_crawl returns, all targets' loops being over,
\* writes the history file, with or without accepted records, and no other
\* step of the run touches the file.
C16_HistoryAtEnd ==
  [][ /\ IncrementalReturns =>
           \E now \in Clock :
             files'[HistoryJson] = JsonFile(HistoryRecord(now, all_articles'))
      /\ files'[HistoryJson] # files[HistoryJson] =>
           /\ IncrementalReturns
           /\ InBatch /\ Top.todo = <<>> /\ Len(Top.results) = Len(ConfigNames)
    ]_vars

\* requests were made in the run and none was answered with a valid page
NoValidPage ==
  /\ fetched # <<>>
  /\ \A i \in DOMAIN fetched : ~HasList(fetched[i].data)

\* C17. The history records only successful crawls: an incremental run in
\* which no valid page was received for any target leaves the history file,
\* and with it the stored last_crawl_time, as it was.
C17_HistoryOnlyOnSuccess ==
  [][ (IncrementalReturns /\ NoValidPage) => files'[HistoryJson] = files[HistoryJson] ]_vars

\* request i was answered with a valid body whose totalCount puts the page
\* index beyond the last page: (page index - 1) * page_size >= totalCount
PastTotalAt(i) ==
  LET e == fetched[i] IN
  /\ HasList(e.data)
  /\ "totalCount" \in DOMAIN e.data.data
  /\ (e.page_index - 1) * page_size >= e.data.data.totalCount

\* C18. Total-pages stop: a valid body with totalCount, received for a page
\* index greater than ceil(totalCount / page_size), ends the loop at once:
\* its records reach neither the accumulator nor the seen set and no further
\* page is requested.
C18_TotalPagesStop ==
  \A i \in DOMAIN fetched :
    PastTotalAt(i) =>
      /\ i = Len(fetched)
      /\ stack # <<>> => ~Top.running
      /\ Iterated =>
           /\ all_articles = obs.articles_before
           /\ existing_article_ids = obs.seen_before

\* page 1 of 3 allowed pages carries 12 records and totalCount 0
C18_Witness ==
  /\ Iterated
  /\ Len(fetched) = 1
  /\ PastTotalAt(1)
  /\ Len(fetched[1].data.data.resultList) = page_size
  /\ arg.max_pages = 3
  /\ ~Top.running
  /\ all_articles = obs.articles_before

-----------------------------------------------------------------------------
(* An incremental get_all_articles that goes deep: the endpoint keeps       *)
(* answering with the same full page, so that later pages bring nothing new *)

MaxDeepPages == 5

DeepAnswers ==
  { RequestFailed,
    Answer(Body(Slice(1, page_size))),
    Answer(BodyWithTotal(Slice(1, page_size), 100)),
    Answer(BodyWithTotal(Slice(1, page_size), 4 * page_size)),
    Answer(Body(Slice(1, 2))) }

DeepInit ==
  /\ \E pre \in CrawlPreStates :
       /\ existing_article_ids = pre[1]
       /\ all_articles = pre[2]
  /\ files = NoFiles
  /\ stack = <<>>
  /\ fetched = <<>>
  /\ server = [kind |-> "repeating"]
  /\ unwritable = {}
  /\ obs = NoObs
  /\ \E last \in SinceTimes, max_pages \in 0..MaxDeepPages :
       /\ last_crawl_time = last
       /\ impl = IF IsNone(last) THEN "package" ELSE "script"
       /\ arg = [op |-> "get_all_articles", max_pages |-> max_pages,
                 incremental |-> TRUE, since_time |-> JsonNull]

DeepIter ==
  /\ server.kind = "repeating"
  /\ InLoop
  /\ \E resp \in DeepAnswers : LoopIter(resp)

DeepNext == GetAllArticlesCall \/ DeepIter \/ LoopReturn

SpecDeep == DeepInit /\ [][DeepNext]_vars

\* the last iteration was for a page index above 3, in incremental mode, got
\* a full page, accepted nothing of it, and the page index is below max_pages
\* and below the declared total pages
NothingNewDeep ==
  /\ Iterated
  /\ "added" \in DOMAIN obs
  /\ obs.frame.incremental
  /\ obs.page_index > 3
  /\ obs.page_index < arg.max_pages
  /\ HasList(obs.data)
  /\ Len(obs.data.data.resultList) = page_size
  /\ "totalCount" \in DOMAIN obs.data.data =>
       obs.page_index * page_size < obs.data.data.totalCount
  /\ obs.added = <<>>

\* C19. The early-exit heuristic is advisory only: in incremental mode a full
\* page at a page index above 3 that yields no accepted record, below the
\* declared total pages and below max_pages, does not end the loop; the next
\* request is for the next page index.
C19_EarlyExitAdvisory ==
  /\ NothingNewDeep =>
       /\ InLoop
       /\ Top.running
       /\ Top.page_index = obs.page_index + 1
  /\ \A i \in DOMAIN fetched :
       i < Len(fetched) => fetched[i + 1].page_index = fetched[i].page_index + 1

\* page 4 of 5 allowed pages was a full page of already seen records, with
\* totalCount 100, and the loop stands at page 5
C19_Witness ==
  /\ NothingNewDeep
  /\ obs.page_index = 4
  /\ arg.max_pages = 5
  /\ "totalCount" \in DOMAIN obs.data.data
  /\ Len(obs.articles_before) >= page_size
  /\ Top.running
  /\ Top.page_index = 5

-----------------------------------------------------------------------------
(* The time compared against since_time, on the calls of SpecFilter *)

UpdateTimeAt(i) == _parse_timestamp(obs.articles[i].update_time)
PublishTimeAt(i) == _parse_timestamp(obs.articles[i].publish_time)

ReturnedAt(i) == obs.articles[i] \in Range(obs.returned)

\* C20. Effective time selection: with since_time set, a record that is not
\* a duplicate is accepted exactly when its update time is later than
\* since_time, whenever the update time is present and parseable, whatever
\* the publish time; the publish time decides only when the update time is
\* missing or unparseable.
C20_EffectiveTime ==
  (Filtered /\ ~IsNone(obs.since_time)) =>
    \A i \in DOMAIN obs.articles :
      NotDuplicateAt(i) =>
        /\ ~IsNone(UpdateTimeAt(i)) =>
             (ReturnedAt(i) <=> BigGt(UpdateTimeAt(i), obs.since_time))
        /\ (IsNone(UpdateTimeAt(i)) /\ ~IsNone(PublishTimeAt(i))) =>
             (ReturnedAt(i) <=> BigGt(PublishTimeAt(i), obs.since_time))

\* a record updated at since_time and published after it is rejected, next
\* to a record without update time, published after since_time, accepted
C20_Witness ==
  /\ Filtered
  /\ ~IsNone(obs.since_time)
  /\ Len(obs.articles) = 2
  /\ NotDuplicateAt(1) /\ NotDuplicateAt(2)
  /\ ~IsNone(UpdateTimeAt(1)) /\ ~IsNone(PublishTimeAt(1))
  /\ ~BigGt(UpdateTimeAt(1), obs.since_time)
  /\ BigGt(PublishTimeAt(1), obs.since_time)
  /\ ~ReturnedAt(1)
  /\ IsNone(UpdateTimeAt(2)) /\ ~IsNone(PublishTimeAt(2))
  /\ BigGt(PublishTimeAt(2), obs.since_time)
  /\ ReturnedAt(2)

-----------------------------------------------------------------------------
(* the delay between two fetches *)

\* an iteration has ended and the loop goes on to another fetch
FetchFollows == obs.op = "iteration" /\ InLoop /\ Top.running

\* C24. Fixed delay between calls: between two consecutive page fetches of
\* one crawl loop the delay of one second elapses, on every path to the
\* next fetch, the path after a failed or invalid page included.
C24_FixedDelay == FetchFollows => obs.slept >= sleep_seconds

-----------------------------------------------------------------------------
(* parse_articles called on a payload *)

MaxParseLen == 3

\* items of a resultList: with and without postId, with and without times
ParseItems ==
  {RawItem(1), RawItem(2),
   [lastEditTime |-> TsSec(BaseSec)],
   [postId |-> "2", title |-> "t"]}

\* the empty payload, None, and the bodies with and without data.resultList
Payloads ==
  {<<>>, JsonNull, NoDataBody, NoListBody, NullDataBody}
    \cup {Body(items) : items \in SeqsUpTo(ParseItems, MaxParseLen)}

ParseInit ==
  /\ impl = "package"
  /\ existing_article_ids = {}
  /\ last_crawl_time = JsonNull
  /\ all_articles = <<>>
  /\ files = NoFiles
  /\ stack = <<>>
  /\ fetched = <<>>
  /\ server = NoServer
  /\ unwritable = {}
  /\ obs = NoObs
  /\ \E data \in Payloads : arg = [op |-> "parse_articles", data |-> data]

ParseCall ==
  /\ arg.op = "parse_articles"
  /\ LET raised == ParseRaises(arg.data) IN
     obs' = [op |-> IF raised = NoError THEN "parse_articles" ELSE "raised",
             fn |-> "parse_articles", data |-> arg.data, raised |-> raised,
             returned |-> IF raised = NoError THEN parse_articles(arg.data) ELSE <<>>]
  /\ arg' = NoArg
  /\ UNCHANGED <<impl, existing_article_ids, last_crawl_time, all_articles, files,
                 stack, fetched, server, unwritable>>

SpecParse == ParseInit /\ [][ParseCall]_vars

\* parse_articles has ended, by return or by exception
ParseEnded == obs.op # "none" /\ obs.fn = "parse_articles"

\* the payload is a dict whose "data" is a dict with a resultList
PayloadHasList(data) ==
  IF DOMAIN data = {} \/ IsNone(data) THEN FALSE
  ELSE IF "data" \notin DOMAIN data THEN FALSE
  ELSE IF IsNone(data.data) THEN FALSE
  ELSE "resultList" \in DOMAIN data.data

\* C25. Parser totality: parse_articles raises nothing; for a payload without
\* data.resultList (empty, None, no "data", "data" without "resultList",
\* "data" null) it returns the empty list; for a resultList of k items it
\* returns k records in the same order, record i carrying the postId of item
\* i as its identifier, the empty string when the item has none.
C25_ParserTotality ==
  ParseEnded =>
    /\ obs.raised = NoError
    /\ IF PayloadHasList(obs.data)
       THEN /\ Len(obs.returned) = Len(obs.data.data.resultList)
            /\ \A i \in DOMAIN obs.returned :
                 obs.returned[i].id = Get(obs.data.data.resultList[i], "postId", "")
       ELSE obs.returned = <<>>

-----------------------------------------------------------------------------
(* _parse_timestamp called on a text *)

\* integer texts on both sides of 1e12 and of the last second and
\* millisecond of year 9999
TimestampInts ==
  {Big(hi, lo) : hi \in {0, 1, 1700, 253402, Mega - 1, Mega, Mega + 1,
                         1700 * 1000, 253402300, 253402301},
                 lo \in {0, 1, 300799, 300800, 799999, 800000, Mega - 1}}

TimestampTexts ==
  {EmptyStr, TsText, [str |-> "1e3"], [str |-> "12.5"], TsHuge}
    \cup {[int |-> v] : v \in TimestampInts}

TimestampInit ==
  /\ impl = "package"
  /\ existing_article_ids = {}
  /\ last_crawl_time = JsonNull
  /\ all_articles = <<>>
  /\ files = NoFiles
  /\ stack = <<>>
  /\ fetched = <<>>
  /\ server = NoServer
  /\ unwritable = {}
  /\ obs = NoObs
  /\ \E timestamp_str \in TimestampTexts :
       arg = [op |-> "_parse_timestamp", timestamp_str |-> timestamp_str]

TimestampCall ==
  /\ arg.op = "_parse_timestamp"
  /\ obs' = [op |-> "_parse_timestamp", timestamp_str |-> arg.timestamp_str,
             returned |-> _parse_timestamp(arg.timestamp_str)]
  /\ arg' = NoArg
  /\ UNCHANGED <<impl, existing_article_ids, last_crawl_time, all_articles, files,
                 stack, fetched, server, unwritable>>

SpecTimestamp == TimestampInit /\ [][TimestampCall]_vars

TimestampParsed == obs.op = "_parse_timestamp"

\* the instant (in milliseconds) of v seconds, of v milliseconds: none past
\* year 9999
InstantOfSeconds(v) == IF BigGt(v, MaxEpochSecond) THEN JsonNull ELSE BigTimes1000(v)
InstantOfMillis(v) == IF BigGt(v, MaxEpochMillis) THEN JsonNull ELSE v

\* C26. Millisecond threshold: _parse_timestamp takes an integer text v as
\* milliseconds exactly when v > 10^12, and as seconds when v <= 10^12, the
\* value 10^12 included; an empty text and a text that is no integer give
\* None.
C26_MillisecondThreshold ==
  TimestampParsed =>
    LET s == obs.timestamp_str IN
    IF "int" \in DOMAIN s
    THEN IF BigGt(s.int, MsThreshold)
         THEN obs.returned = InstantOfMillis(s.int)
         ELSE obs.returned = InstantOfSeconds(s.int)
    ELSE "str" \in DOMAIN s => IsNone(obs.returned)

\* 10^12 itself is read as seconds (no instant: past year 9999), 10^12 + 1
\* would be read as milliseconds
C26_Witness ==
  /\ TimestampParsed
  /\ obs.timestamp_str = [int |-> MsThreshold]
  /\ IsNone(obs.returned)

-----------------------------------------------------------------------------
(* the identifiers of the merged corpus *)

\* the positions of the written corpus holding identifier id
CorpusPositions(id) ==
  {i \in DOMAIN files[AllJson].value : files[AllJson].value[i].id = id}

\* the first record with identifier id in list, as a set (empty when none)
FirstWithId(list, id) ==
  {list[i] : i \in {j \in DOMAIN list :
                      /\ list[j].id = id
                      /\ \A k \in 1..(j - 1) : list[k].id # id}}

\* C22. One record per identifier after merge: the corpus written by
\* merge_and_save_incremental holds at most one record for each non-empty
\* identifier occurring in the incoming results, the first one seen (in the
\* stored list or else in the incoming list).
C22_OneRecordPerId ==
  Merged =>
    \A j \in DOMAIN AllNewArticles(obs.new_results) :
      LET id == AllNewArticles(obs.new_results)[j].id
      IN  id # "" =>
            /\ Cardinality(CorpusPositions(id)) <= 1
            /\ \A i \in CorpusPositions(id) :
                 files[AllJson].value[i] \in
                   FirstWithId(StoredBefore, id)
                     \cup FirstWithId(AllNewArticles(obs.new_results), id)

-----------------------------------------------------------------------------
(* the corpus file across a merge *)

\* C27. The persisted corpus only grows: when the corpus file held a JSON
\* list before merge_and_save_incremental, the file written by the call
\* begins with that list, record for record, the new records after it.
C27_CorpusOnlyGrows ==
  (Merged /\ obs.files_before[AllJson].kind = "json") =>
    /\ files[AllJson].kind = "json"
    /\ Len(files[AllJson].value) >= Len(StoredBefore)
    /\ SubSeq(files[AllJson].value, 1, Len(StoredBefore)) = StoredBefore

-----------------------------------------------------------------------------
(* the result map of incremental_crawl *)

\* C28. Incremental results are duplicate-free across targets: in the map
\* returned by incremental_crawl no non-empty identifier occurs in two
\* records, of one target or of two, and no returned record carries an
\* identifier that was in the seen set when the run started.
C28_IncrementalDuplicateFree ==
  obs.op = "incremental_crawl" =>
    LET returned == AllNewArticles(obs.returned) IN
    /\ \A i, j \in DOMAIN returned :
         (i # j /\ returned[i].id # "") => returned[i].id # returned[j].id
    /\ \A i \in DOMAIN returned :
         returned[i].id # "" => returned[i].id \notin obs.seen_at_call

-----------------------------------------------------------------------------
(* get_all_articles_batch called with a list of names, on an instance that  *)
(* may hold records of an earlier crawl                                     *)

MaxBatchPages == 2

\* lists of names: none, unregistered ones, registered ones, one repeated
BatchNameLists ==
  { <<>>, <<"ghost">>, <<"original">>, <<"new_target", "original">>,
    <<"ghost", "original">>, <<"original", "ghost", "new_target">>,
    <<"original", "original">>, <<"original", "new_target", "ghost">> }

BatchAnswers ==
  {RequestFailed, Answer(Body(Slice(1, 2))), Answer(Body(Slice(2, 2))),
   Answer(Body(Slice(1, page_size)))}

BatchInit ==
  /\ impl = "package"
  /\ existing_article_ids \in {{}, {"2"}}
  /\ last_crawl_time = JsonNull
  /\ all_articles \in {<<>>, <<ParseItem(RawItem(5))>>}
  /\ files = NoFiles
  /\ stack = <<>>
  /\ fetched = <<>>
  /\ server = AnyServer
  /\ unwritable = {}
  /\ obs = NoObs
  /\ \E config_names \in BatchNameLists, incremental \in BOOLEAN :
       arg = [op |-> "get_all_articles_batch", config_names |-> config_names,
              incremental |-> incremental]

\* get_all_articles_batch(config_names, max_pages, incremental) called from
\* outside
BatchCallNames ==
  /\ stack = <<>>
  /\ arg.op = "get_all_articles_batch"
  /\ stack' = <<BatchFrame(arg.config_names, MaxBatchPages, arg.incremental, JsonNull)>>
  /\ fetched' = <<>>
  /\ arg' = [arg EXCEPT !.op = "called"]
  /\ obs' = NoObs
  /\ UNCHANGED <<impl, existing_article_ids, last_crawl_time, all_articles, files,
                 server, unwritable>>

BatchIter ==
  /\ arg.op = "called"
  /\ InLoop
  /\ \E resp \in BatchAnswers : LoopIter(resp)

BatchSteps ==
  \/ BatchCallNames
  \/ BatchNext
  \/ BatchIter
  \/ LoopReturnToBatch
  \/ BatchReturn

SpecBatch == BatchInit /\ [][BatchSteps]_vars

BatchReturned == obs.op = "get_all_articles_batch"

\* the registered names of the call, in the order given
Crawled == LET Registered(n) == n \in Configs IN SelectSeq(obs.config_names, Registered)

\* the fetches of a first page, and the loop (counted from 1) fetch i is of
LoopStarts == {i \in DOMAIN fetched : fetched[i].page_index = 1}
LoopOf(i) == Cardinality({j \in LoopStarts : j <= i})

\* the records a full-mode loop takes from one fetch
PageRecords(f) ==
  IF PageCheck(f.data) = "valid" /\ ~PastTotal(f.data, f.page_index)
  THEN parse_articles(f.data) ELSE <<>>

\* the parsed records of the fetches of loop k, from fetch i on
RECURSIVE AccumulatedFrom(_, _)
AccumulatedFrom(i, k) ==
  IF i > Len(fetched) THEN <<>>
  ELSE (IF LoopOf(i) = k THEN PageRecords(fetched[i]) ELSE <<>>)
         \o AccumulatedFrom(i + 1, k)

Accumulated(k) == AccumulatedFrom(1, k)

\* the lists of loops k, k + 1, ... one after another
RECURSIVE AccumulatedSince(_)
AccumulatedSince(k) ==
  IF k > Len(Crawled) THEN <<>> ELSE Accumulated(k) \o AccumulatedSince(k + 1)

\* the last loop run for the name
LastLoopOf(name) ==
  CHOOSE k \in DOMAIN Crawled :
    Crawled[k] = name /\ \A j \in DOMAIN Crawled : Crawled[j] = name => j <= k

NoNameTwice == \A i, j \in DOMAIN Crawled : i # j => Crawled[i] # Crawled[j]

\* C29. Batch isolation and sequencing: get_all_articles_batch runs one loop
\* per registered name in the order given, each loop's fetches (pages 1, 2,
\* ...) before the first fetch of the next; an unregistered name gets no
\* fetch and no result entry; the list returned for a name holds records
\* of that name's own loop only (in full mode: exactly its parsed pages);
\* all_articles ends as its value before the call followed by the loops'
\* lists in crawl order.
C29_BatchIsolation ==
  BatchReturned =>
    /\ Cardinality(LoopStarts) = Len(Crawled)
    /\ \A i \in DOMAIN fetched :
         /\ LoopOf(i) \in DOMAIN Crawled
         /\ fetched[i].config = Crawled[LoopOf(i)]
         /\ i \in LoopStarts \/ fetched[i].page_index = fetched[i - 1].page_index + 1
    /\ {obs.returned[e].name : e \in DOMAIN obs.returned} = Range(Crawled)
    /\ \A e \in DOMAIN obs.returned :
         LET own == Accumulated(LastLoopOf(obs.returned[e].name)) IN
         /\ Range(obs.returned[e].articles) \subseteq Range(own)
         /\ ~obs.incremental => obs.returned[e].articles = own
    /\ ~obs.incremental => all_articles = obs.articles_before \o AccumulatedSince(1)
    /\ NoNameTwice => all_articles = obs.articles_before \o AllNewArticles(obs.returned)

\* two targets crawled around an unregistered name, after an earlier crawl
C29_Witness ==
  /\ BatchReturned
  /\ obs.config_names = <<"original", "ghost", "new_target">>
  /\ obs.articles_before # <<>>
  /\ Len(obs.returned) = 2
  /\ obs.returned[1].articles # <<>>
  /\ obs.returned[2].articles # <<>>
  /\ obs.returned[1].articles # obs.returned[2].articles
  /\ Len(fetched) > 2

-----------------------------------------------------------------------------
(* get_all_articles in full mode *)

\* the call asks for the filter: incremental is true or a since_time is given
FilterAsked == arg.incremental \/ ~IsNone(arg.since_time)

\* C30. Full mode applies no filter: in get_all_articles with incremental
\* false and no since_time no iteration changes the seen set, and every
\* parsed record of an accumulated page is appended to the accumulator, seen
\* or not, already accumulated or not; filter_new_articles runs on a page
\* exactly when incremental is true or a since_time is given.
C30_FullModeNoFilter ==
  Iterated =>
    /\ "filtered" \in DOMAIN obs => (obs.filtered <=> FilterAsked)
    /\ ~FilterAsked =>
         /\ existing_article_ids = obs.seen_before
         /\ "filtered" \in DOMAIN obs =>
              all_articles = obs.articles_before \o parse_articles(obs.data)

\* a full-mode iteration appends a page holding a record that is in the seen
\* set and in the accumulator already
C30_Witness ==
  /\ Iterated
  /\ ~FilterAsked
  /\ "filtered" \in DOMAIN obs
  /\ obs.seen_before = {"1", "13"}
  /\ \E i \in DOMAIN obs.articles :
       /\ obs.articles[i].id \in obs.seen_before
       /\ obs.articles[i] \in Range(obs.articles_before)
  /\ Len(all_articles) = Len(obs.articles_before) + Len(obs.articles)
  /\ existing_article_ids = {"1", "13"}

-----------------------------------------------------------------------------
(* filter_new_articles on records without a usable time *)

UnknownTimes == {EmptyStr, TsText, TsOutOfRange, TsHuge}

UnknownArticles ==
  {Article(id, u, p) : id \in {"", "1"}, u \in UnknownTimes, p \in UnknownTimes}

UnknownInit ==
  /\ impl = "package"
  /\ existing_article_ids \in {{}, {"1"}}
  /\ last_crawl_time = JsonNull
  /\ all_articles = <<>>
  /\ files = NoFiles
  /\ stack = <<>>
  /\ fetched = <<>>
  /\ server = NoServer
  /\ unwritable = {}
  /\ obs = NoObs
  /\ \E articles \in SeqsUpTo(UnknownArticles, MaxFilterLen), since_time \in SinceTimes :
       arg = [op |-> "filter_new_articles", articles |-> articles,
              since_time |-> since_time]

SpecUnknownTime == UnknownInit /\ [][FilterCall]_vars

\* the text gives no instant: empty, not an integer, or out of range
Unparseable(timestamp_str) ==
  \/ IsFalsyStr(timestamp_str)
  \/ "int" \notin DOMAIN timestamp_str
  \/ BigGt(timestamp_str.int, MaxEpochMillis)
  \/ (~BigGt(timestamp_str.int, MsThreshold) /\ BigGt(timestamp_str.int, MaxEpochSecond))

\* filter_new_articles has ended, by return or by exception
FilterEnded == obs.op \in {"filter_new_articles", "raised"}

\* C21. Unknown-time inclusion: a record whose update time and publish time
\* are both missing or unparseable passes the time check for every
\* since_time: filter_new_articles returns, with the record in its result
\* whenever it is not a duplicate.
C21_UnknownTimeIncluded ==
  FilterEnded =>
    \A i \in DOMAIN obs.articles :
      ( /\ NotDuplicateAt(i)
        /\ Unparseable(obs.articles[i].update_time)
        /\ Unparseable(obs.articles[i].publish_time) ) =>
          /\ obs.raised = NoError
          /\ ReturnedAt(i)

-----------------------------------------------------------------------------
(* incremental_crawl over a data directory whose history file or corpus     *)
(* file is damaged                                                          *)

GoodHistory == JsonFile(HistoryRecord(SampleTime, <<ParseItem(RawItem(1))>>))
GoodCorpus == JsonFile(<<ParseItem(RawItem(1))>>)

\* damaged history files: no JSON, no UTF-8, no read permission, `null`,
\* `[1, 2]`, a last_crawl_time that is no ISO date, one that is a number
BadHistories ==
  {Garbage, NotUtf8, Unreadable, JsonNullFile, JsonScalarsFile,
   JsonFile([last_crawl_time |-> [str |-> "yesterday"]]),
   JsonFile([last_crawl_time |-> [num |-> 5]])}

\* damaged corpus files
BadCorpora == {Garbage, NotUtf8, Unreadable, JsonNullFile, JsonScalarsFile}

LoadInit ==
  /\ impl \in Impls
  /\ existing_article_ids = {}
  /\ last_crawl_time = JsonNull
  /\ all_articles = <<>>
  /\ \E history \in {Absent, GoodHistory} \cup BadHistories,
        corpus \in {Absent, GoodCorpus} \cup BadCorpora :
       files = [NoFiles EXCEPT ![HistoryJson] = history, ![AllJson] = corpus]
  /\ stack = <<>>
  /\ fetched = <<>>
  /\ server = AnyServer
  /\ unwritable = {}
  /\ obs = NoObs
  /\ arg = [op |-> "lifecycle", remaining |-> 1]

LoadNext ==
  \/ IncrementalCrawlCall
  \/ BatchNext
  \/ LifeIter
  \/ LoopReturnToBatch
  \/ IncrementalCrawlReturn

SpecLoad == LoadInit /\ [][LoadNext]_vars

\* incremental_crawl has just made its two loads: it enters its batch, or
\* an exception has left it
IncrementalCrawlCalled == obs.op \in {"call", "raised"}

\* C23. Load failures are non-fatal: with a history file or a corpus file
\* that exists but is malformed or unreadable, the loads of incremental_crawl
\* raise nothing and the run goes on as if the file were absent: the filter
\* time stays unset for a bad history file, the existing list is empty and
\* the seen set untouched for a bad corpus file.
C23_LoadFailuresNonFatal ==
  IncrementalCrawlCalled =>
    /\ (files[HistoryJson] \in BadHistories =>
          /\ obs.op = "call"
          /\ IsNone(last_crawl_time))
    /\ (files[AllJson] \in BadCorpora =>
          /\ obs.op = "call"
          /\ stack[1].existing_articles = <<>>
          /\ existing_article_ids = {})

=============================================================================
